---- MODULE Spec2Model ----
(***************************************************************************)
(* Model of the Magisk module manager: the path trie of directories.rs     *)
(* (Node::insert, Node::get, Node::print and the two listing commands of   *)
(* main) and the deploy pipeline of main.rs (push_project, zip_folder and   *)
(* the connectivity check).                                                *)
(*                                                                         *)
(* Text is modelled as a sequence of one-character strings, so that        *)
(* splitting, formatting and path resolution are computed, not assumed.    *)
(***************************************************************************)
EXTENDS Naturals, Sequences, FiniteSets, TLC

VARIABLES
    \* ---- path trie (directories.rs, main.rs 305-327) ----
    root,            \* the trie being built: a Node
    inserted,        \* history: the set of stdout lines fed to Node::insert
    nLines,          \* number of stdout lines consumed so far
    tcmd,            \* which listing command runs
    tpc,             \* position in the listing command
    directory_name,  \* Option<String> argument of GetAndroidTree
    output,          \* the lines printed by Node::print, in order
    \* ---- deploy pipeline (main.rs 211-282) ----
    pc,              \* position in push_project
    name,            \* module name given on the command line
    flags,           \* no_clear, no_push, no_reboot, ignore_adb
    project_path,    \* base_path computed by main
    windows,         \* host path convention the binary was built for
    adbOut,          \* stdout of `adb devices`
    fbOut,           \* stdout of `fastboot devices`
    fs,              \* local files that exist, as resolved paths
    zipState,        \* archive writer: "none", "open", "closed", "dropped"
    zipFile,         \* resolved path File::create was given
    srcTree,         \* the directory tree found at module_path
    walk,            \* what the WalkDir iterator has yet to yield
    archive,         \* entries written to the archive, in order
    inflight,        \* external operation currently running, or "none"
    log,             \* external operations issued, in order, with arguments
    status,          \* exit status returned by each completed command
    remote           \* device side: pushed archive, staging dir, marker

trieVars == <<root, inserted, nLines, tcmd, tpc, directory_name, output>>
zipVars == <<srcTree, walk, archive>>
pipeVars == <<pc, name, flags, project_path, windows, adbOut, fbOut, fs, zipState,
              zipFile, inflight, log, status, remote, zipVars>>
vars == <<trieVars, pipeVars>>

-----------------------------------------------------------------------------
(* Text helpers: what str::split, str::lines, str::trim and " ".repeat do. *)

\* Byte value of the characters the model uses (String's Ord is byte-wise).
Code(c) ==
    CASE c = "\t" -> 9
      [] c = "\n" -> 10
      [] c = "\r" -> 13
      [] c = " "  -> 32
      [] c = "."  -> 46
      [] c = "1"  -> 49
      [] c = "2"  -> 50
      [] c = "/"  -> 47
      [] c = "\\" -> 92
      [] c = "a"  -> 97
      [] c = "b"  -> 98
      [] c = "c"  -> 99
      [] c = "d"  -> 100
      [] c = "e"  -> 101
      [] c = "f"  -> 102
      [] c = "i"  -> 105
      [] c = "m"  -> 109
      [] c = "o"  -> 111
      [] c = "p"  -> 112
      [] c = "v"  -> 118
      [] c = "x"  -> 120
      [] c = "z"  -> 122

\* str::split: the pieces of s between separators, empty pieces included.
\* With n separators in s there are n + 1 pieces: the k-th lies between
\* the (k-1)-th and the k-th separator.
Split(s, seps) ==
    LET at == { i \in 1..Len(s) : s[i] \in seps }
        n  == Cardinality(at)
        Sep(k) == IF k = 0 THEN 0
                  ELSE IF k = n + 1 THEN Len(s) + 1
                  ELSE CHOOSE i \in at : Cardinality({ j \in at : j < i }) = k - 1
    IN  [k \in 1..(n + 1) |-> SubSeq(s, Sep(k - 1) + 1, Sep(k) - 1)]

\* Iterator::filter(|p| !p.is_empty())
RECURSIVE NonEmpty(_)
NonEmpty(ss) ==
    IF ss = <<>> THEN <<>>
    ELSE IF Head(ss) = <<>> THEN NonEmpty(Tail(ss))
         ELSE <<Head(ss)>> \o NonEmpty(Tail(ss))

\* " ".repeat(n)
RECURSIVE Spaces(_)
Spaces(n) == IF n = 0 THEN <<>> ELSE <<" ">> \o Spaces(n - 1)

\* String::cmp, strictly less: byte-wise lexicographic, a proper prefix first.
RECURSIVE StrLess(_, _)
StrLess(s, t) ==
    IF t = <<>> THEN FALSE
    ELSE IF s = <<>> THEN TRUE
    ELSE IF Head(s) = Head(t) THEN StrLess(Tail(s), Tail(t))
    ELSE Code(Head(s)) < Code(Head(t))

-----------------------------------------------------------------------------
(* directories.rs: Node.  A Node has the single field children, a          *)
(* BTreeMap<String, Node>; it is modelled as that map, a function from     *)
(* segment names to Nodes.                                                 *)

\* Node::new
NewNode == <<>>

\* path.split('/') without the filter: empty segments are kept.
SegmentsKeepEmpty(path) == Split(path, {"/"})

\* path.split('/').filter(|p| !p.is_empty())
Segments(path) == NonEmpty(Split(path, {"/"}))

\* The loop of Node::insert with or_insert_with replaced by an insert that
\* overwrites the child: an existing subtree is lost.
RECURSIVE InsertPartsClobber(_, _)
InsertPartsClobber(node, parts) ==
    IF parts = <<>> THEN node
    ELSE LET part == Head(parts)
         IN  [k \in DOMAIN node \cup {part} |->
                 IF k = part THEN InsertPartsClobber(NewNode, Tail(parts))
                 ELSE node[k]]

\* The loop of Node::insert rebuilding the children map from the one entry
\* it touches: the siblings of the inserted segment are lost.
RECURSIVE InsertPartsDropSiblings(_, _)
InsertPartsDropSiblings(node, parts) ==
    IF parts = <<>> THEN node
    ELSE LET part  == Head(parts)
             child == IF part \in DOMAIN node THEN node[part] ELSE NewNode
         IN  [k \in {part} |-> InsertPartsDropSiblings(child, Tail(parts))]

\* The loop of Node::insert: entry(part).or_insert_with(Node::new), then
\* continue from that child.
RECURSIVE InsertParts(_, _)
InsertParts(node, parts) ==
    IF parts = <<>> THEN node
    ELSE LET part  == Head(parts)
             child == IF part \in DOMAIN node THEN node[part] ELSE NewNode
         IN  [k \in DOMAIN node \cup {part} |->
                 IF k = part THEN InsertParts(child, Tail(parts))
                 ELSE node[k]]

\* Node::insert
Insert(node, path) == InsertParts(node, Segments(path))

\* Option<&Node>
None == [found |-> FALSE, node |-> NewNode]
Some(n) == [found |-> TRUE, node |-> n]

\* The loop of Node::get without the `?`: a missing child is skipped.
RECURSIVE GetPartsLenient(_, _)
GetPartsLenient(node, parts) ==
    IF parts = <<>> THEN Some(node)
    ELSE IF Head(parts) \in DOMAIN node
         THEN GetPartsLenient(node[Head(parts)], Tail(parts))
         ELSE GetPartsLenient(node, Tail(parts))

\* The loop of Node::get: children.get(part)? returns None at the first
\* missing segment.
RECURSIVE GetParts(_, _)
GetParts(node, parts) ==
    IF parts = <<>> THEN Some(node)
    ELSE IF Head(parts) \in DOMAIN node
         THEN GetParts(node[Head(parts)], Tail(parts))
         ELSE None

\* Node::get
Get(node, path) == GetParts(node, Segments(path))

\* Keys in descending order: the iteration order of a reversed map.
RECURSIVE SortedKeysDesc(_)
SortedKeysDesc(S) ==
    IF S = {} THEN <<>>
    ELSE LET m == CHOOSE k \in S : \A j \in S : j = k \/ StrLess(j, k)
         IN  <<m>> \o SortedKeysDesc(S \ {m})

\* Iteration order of a BTreeMap's keys: ascending by String::cmp.
RECURSIVE SortedKeys(_)
SortedKeys(S) ==
    IF S = {} THEN <<>>
    ELSE LET m == CHOOSE k \in S : \A j \in S : j = k \/ StrLess(k, j)
         IN  <<m>> \o SortedKeys(S \ {m})

\* The step by which Node::print deepens the indent (indent + 2).
IndentStep == 2

\* Node::print: for each (name, node) in key order, one line of `indent`
\* spaces and the name, then the child's subtree at indent + IndentStep.
RECURSIVE NodePrint(_, _)
RECURSIVE PrintChildren(_, _, _)
PrintChildren(node, keys, indent) ==
    IF keys = <<>> THEN <<>>
    ELSE << Spaces(indent) \o Head(keys) >>
         \o NodePrint(node[Head(keys)], indent + IndentStep)
         \o PrintChildren(node, Tail(keys), indent)

NodePrint(node, indent) == PrintChildren(node, SortedKeys(DOMAIN node), indent)

-----------------------------------------------------------------------------
(* Bounds and input sets of the listing commands.                          *)

\* Most lines `find` prints in one run of a listing command.
MaxLines == 3

\* Lines the remote `find` may print (consumed verbatim by Node::insert):
\* "", "/", "/a", "/b", "/ab", "/a/b", "/b/a", "a//b/", "/b/ab", "/a/b/a".
TreeLines ==
    { <<>>,
      <<"/">>,
      <<"/", "a">>,
      <<"/", "b">>,
      <<"/", "a", "b">>,
      <<"/", "a", "/", "b">>,
      <<"/", "b", "/", "a">>,
      <<"a", "/", "/", "b", "/">>,
      <<"/", "b", "/", "a", "b">>,
      <<"/", "a", "/", "b", "/", "a">> }

\* Sub-paths the operator may ask GetAndroidTree for: every line above and
\* "/c", "/a/c", "b/b", "/a/", which no listing contains.
QueryPaths ==
    TreeLines \cup { <<"/", "c">>, <<"/", "a", "/", "c">>,
                     <<"b", "/", "b">>, <<"/", "a", "/">> }

\* Option<String>
NoArg == [given |-> FALSE, s |-> <<>>]
Arg(s) == [given |-> TRUE, s |-> s]

\* directory_name.unwrap_or("".to_string())
UnwrapOrEmpty(opt) == IF opt.given THEN opt.s ELSE <<>>

\* The pipeline's variables while a listing command runs (push_project is
\* not called).
PipeIdle ==
    /\ pc = "idle"
    /\ name = <<>>
    /\ flags = [no_clear |-> FALSE, no_push |-> FALSE,
                no_reboot |-> FALSE, ignore_adb |-> FALSE]
    /\ project_path = <<>>
    /\ windows = FALSE
    /\ adbOut = <<>>
    /\ fbOut = <<>>
    /\ fs = {}
    /\ zipState = "none"
    /\ zipFile = <<>>
    /\ srcTree = [exists |-> FALSE, entries |-> {}]
    /\ walk = <<>>
    /\ archive = <<>>
    /\ inflight = "none"
    /\ log = <<>>
    /\ status = <<>>
    /\ remote = [zip |-> FALSE, dir |-> FALSE, unpacked |-> FALSE,
                 marker |-> FALSE, rebooted |-> FALSE]

\* The trie's variables while push_project runs (no trie is built).
TrieIdle ==
    /\ root = NewNode
    /\ inserted = {}
    /\ nLines = 0
    /\ tcmd = "Build"
    /\ tpc = "idle"
    /\ directory_name = NoArg
    /\ output = <<>>

-----------------------------------------------------------------------------
(* The listing commands: main's ListDirectories and GetAndroidTree arms,   *)
(* with get_android_tree / list_directories.  The connectivity check they  *)
(* start with only prints a warning and is left out.                       *)

\* State after `let mut root = Node::new();`, the listing's stdout unread.
TrieInit ==
    /\ root = NewNode
    /\ inserted = {}
    /\ nLines = 0
    /\ tcmd \in {"ListDirectories", "GetAndroidTree"}
    /\ tpc = "listing"
    /\ directory_name = NoArg
    /\ output = <<>>
    /\ PipeIdle

\* One iteration of `for line in stdout.lines() { root.insert(line); }`.
InsertLine(line) ==
    /\ tpc = "listing"
    /\ nLines < MaxLines
    /\ root' = Insert(root, line)
    /\ inserted' = inserted \cup {line}
    /\ nLines' = nLines + 1
    /\ UNCHANGED <<tcmd, tpc, directory_name, output>>
    /\ UNCHANGED pipeVars

\* stdout.lines() is exhausted: the function returns root.
EndOfListing ==
    /\ tpc = "listing"
    /\ tpc' = "render"
    /\ UNCHANGED <<root, inserted, nLines, tcmd, directory_name, output>>
    /\ UNCHANGED pipeVars

\* main, ListDirectories arm: tree.print(0).
ListDirectories ==
    /\ tpc = "render"
    /\ tcmd = "ListDirectories"
    /\ output' = NodePrint(root, 0)
    /\ tpc' = "done"
    /\ UNCHANGED <<root, inserted, nLines, tcmd, directory_name>>
    /\ UNCHANGED pipeVars

\* main, GetAndroidTree arm: the subtree at indent 2 when the sub-path
\* resolves, else the whole tree at indent 0.
GetAndroidTree(arg) ==
    /\ tpc = "render"
    /\ tcmd = "GetAndroidTree"
    /\ directory_name' = arg
    /\ LET got == Get(root, UnwrapOrEmpty(arg))
       IN  output' = IF got.found THEN NodePrint(got.node, 2)
                     ELSE NodePrint(root, 0)
    /\ tpc' = "done"
    /\ UNCHANGED <<root, inserted, nLines, tcmd>>
    /\ UNCHANGED pipeVars

TrieNext ==
    \/ \E line \in TreeLines : InsertLine(line)
    \/ EndOfListing
    \/ ListDirectories
    \/ \E arg \in {NoArg} \cup {Arg(s) : s \in QueryPaths} : GetAndroidTree(arg)

TrieSpec == TrieInit /\ [][TrieNext]_vars

-----------------------------------------------------------------------------
(* Properties of the path trie, checked under TrieSpec.                    *)

\* s is a prefix of t (sequences of segments).
IsPrefix(s, t) == Len(s) <= Len(t) /\ SubSeq(t, 1, Len(s)) = s

\* The trie obtained by inserting the lines of a sequence, first to last.
RECURSIVE BuildInOrder(_, _)
BuildInOrder(node, lines) ==
    IF lines = <<>> THEN node
    ELSE BuildInOrder(Insert(node, Head(lines)), Tail(lines))

\* The lines of a set, ascending: one fixed order to compare all others to.
RECURSIVE Ascending(_)
Ascending(S) ==
    IF S = {} THEN <<>>
    ELSE LET m == CHOOSE k \in S : \A j \in S : j = k \/ StrLess(k, j)
         IN  <<m>> \o Ascending(S \ {m})

\* C7: whatever the order and the repetitions in which a set of lines was
\* inserted, the trie is the one obtained by inserting that set once in
\* ascending order: the tree depends on the set of lines alone.
InsertOrderIndependent ==
    root = BuildInOrder(NewNode, Ascending(inserted))

\* C7 witness: three insertions, one repeated, of "/a" and "/a/b" (a path
\* and its extension, where the order of arrival could matter).
InsertOrderWitness ==
    /\ nLines = 3
    /\ inserted = { <<"/", "a">>, <<"/", "a", "/", "b">> }

\* C8 as claimed: Node::get finds every inserted path, and finds no path
\* that was never inserted and whose segments are not a prefix of the
\* segments of an inserted path.  (Fails in the trie nothing was inserted
\* into: "" and "/" have no segments and resolve to the root.)
LookupAsClaimed ==
    \A p \in QueryPaths :
        /\ p \in inserted => Get(root, p).found
        /\ (/\ p \notin inserted
            /\ ~ \E q \in inserted : IsPrefix(Segments(p), Segments(q)))
           => ~ Get(root, p).found

\* C8, amended: Node::get finds every inserted path; it finds no path that
\* has at least one segment, was never inserted and whose segments are not
\* a prefix of the segments of an inserted path; a path without segments
\* resolves to the root whatever was inserted.
LookupCorrect ==
    \A p \in QueryPaths :
        /\ p \in inserted => Get(root, p).found
        /\ (/\ Segments(p) # <<>>
            /\ p \notin inserted
            /\ ~ \E q \in inserted : IsPrefix(Segments(p), Segments(q)))
           => ~ Get(root, p).found
        /\ Segments(p) = <<>> => Get(root, p) = Some(root)

\* C8 witness: "/a/b" was inserted and is found while "/a/c", which shares
\* its first segment, was not inserted and is not found.
LookupWitness ==
    /\ <<"/", "a", "/", "b">> \in inserted
    /\ Get(root, <<"/", "a", "/", "b">>).found
    /\ <<"/", "a", "/", "c">> \notin inserted
    /\ ~ Get(root, <<"/", "a", "/", "c">>).found

\* The segment sequences that name a node: the prefixes of the inserted
\* lines' segment sequences (the empty one names the root).
NodePaths ==
    {<<>>} \cup UNION { { SubSeq(Segments(l), 1, n) : n \in 0..Len(Segments(l)) }
                        : l \in inserted }

\* Where the finished command started rendering, and at which indent.
RenderStart ==
    LET want == Segments(UnwrapOrEmpty(directory_name))
    IN  IF tcmd = "GetAndroidTree" /\ want \in NodePaths
        THEN [path |-> want, indent |-> 2]
        ELSE [path |-> <<>>, indent |-> 0]

\* The nodes below the start node, each as its path from the start node.
BelowStart ==
    LET st == RenderStart.path
    IN  { SubSeq(q, Len(st) + 1, Len(q)) :
            q \in { r \in NodePaths : Len(r) > Len(st) /\ IsPrefix(st, r) } }

\* Pre-order with children in ascending name order: a node before its
\* descendants, siblings (and their subtrees) by name.
RECURSIVE PathLess(_, _)
PathLess(p, q) ==
    IF q = <<>> THEN FALSE
    ELSE IF p = <<>> THEN TRUE
    ELSE IF Head(p) = Head(q) THEN PathLess(Tail(p), Tail(q))
    ELSE StrLess(Head(p), Head(q))

\* C9: the rendering has exactly one line per node below the start node;
\* the line of a node stands at the node's pre-order position (children by
\* ascending name) and is the start indent plus 2 spaces per level below
\* the start node's children, followed by the node's name.  The output is
\* thus a function of the set of nodes, not of the insertion order.
RenderCorrect ==
    tpc = "done" =>
        /\ Len(output) = Cardinality(BelowStart)
        /\ \A p \in BelowStart :
              LET rank == 1 + Cardinality({ q \in BelowStart : PathLess(q, p) })
              IN  output[rank] =
                      Spaces(RenderStart.indent + 2 * (Len(p) - 1)) \o p[Len(p)]

\* C9 witness: the whole tree of /b/a, /ab, /a/b is rendered as
\* "a", "  b", "ab", "b", "  a".
RenderWitness ==
    /\ tpc = "done"
    /\ tcmd = "ListDirectories"
    /\ output = << <<"a">>, <<" ", " ", "b">>, <<"a", "b">>,
                   <<"b">>, <<" ", " ", "a">> >>

-----------------------------------------------------------------------------
(* main.rs: the connectivity check.                                        *)

\* char::is_whitespace, for the characters the model uses.
Whitespace == {" ", "\t", "\n", "\r"}

\* str::lines: split at "\n", without a final empty line, each line without
\* its trailing "\r".
StrLines(s) ==
    LET pieces == Split(s, {"\n"})
        kept   == IF pieces[Len(pieces)] = <<>>
                  THEN SubSeq(pieces, 1, Len(pieces) - 1) ELSE pieces
        chop(l) == IF l # <<>> /\ l[Len(l)] = "\r"
                   THEN SubSeq(l, 1, Len(l) - 1) ELSE l
    IN  [i \in 1..Len(kept) |-> chop(kept[i])]

\* str::split_whitespace
SplitWhitespace(line) == NonEmpty(Split(line, Whitespace))

\* str::trim
RECURSIVE TrimStart(_)
TrimStart(s) ==
    IF s # <<>> /\ Head(s) \in Whitespace THEN TrimStart(Tail(s)) ELSE s

RECURSIVE TrimEnd(_)
TrimEnd(s) ==
    IF s # <<>> /\ s[Len(s)] \in Whitespace
    THEN TrimEnd(SubSeq(s, 1, Len(s) - 1)) ELSE s

Trim(s) == TrimEnd(TrimStart(s))

\* The status token of a device that is ready.
DEVICE == <<"d", "e", "v", "i", "c", "e">>

\* has_adb_device without `.skip(1)`: the first line is examined too.
HasAdbDeviceNoSkip(stdout) ==
    LET ls == StrLines(stdout)
    IN  \E i \in 1..Len(ls) :
            LET parts == SplitWhitespace(ls[i])
            IN  Len(parts) = 2 /\ parts[2] = DEVICE

\* has_adb_device, given the stdout of `adb devices`: after the first line,
\* some line of exactly two tokens whose second is "device".
HasAdbDevice(stdout) ==
    LET ls == StrLines(stdout)
    IN  \E i \in 2..Len(ls) :
            LET parts == SplitWhitespace(ls[i])
            IN  Len(parts) = 2 /\ parts[2] = DEVICE

\* has_fastboot_device, given the stdout of `fastboot devices`: some line
\* that is not empty after trimming.
HasFastbootDevice(stdout) ==
    LET ls == StrLines(stdout)
    IN  \E i \in 1..Len(ls) : Trim(ls[i]) # <<>>

\* What `adb devices` may print: the header alone; the header and a ready
\* device; the header and an offline device; a device line with no header;
\* the header and a line of three tokens.
AdbOutputs ==
    LET header == <<"L", "i", "s", "t", " ", "o", "f", " ", "d", "e", "v",
                    "i", "c", "e", "s", " ", "a", "t", "t", "a", "c", "h",
                    "e", "d", "\n">>
    IN  { header,
          header \o <<"x", "\t", "d", "e", "v", "i", "c", "e", "\n">> \o <<"\n">>,
          header \o <<"x", "\t", "o", "f", "f", "l", "i", "n", "e", "\n">>,
          <<"x", "\t", "d", "e", "v", "i", "c", "e", "\n">>,
          header \o <<"x", " ", "d", "e", "v", "i", "c", "e", " ", "u", "s",
                      "b", "\n">> }

\* What `fastboot devices` may print: nothing; one device; a blank line.
FastbootOutputs ==
    { <<>>,
      <<"x", "\t", "f", "a", "s", "t", "b", "o", "o", "t", "\n">>,
      <<" ", "\n">> }

-----------------------------------------------------------------------------
(* main.rs: the paths push_project and zip_folder build, and how the host  *)
(* reads them.                                                             *)

\* format!("{}.zip", name)
ZipName(n) == n \o <<".", "z", "i", "p">>

\* zip_folder: format!("{}/{}", dst_dir.to_string_lossy(), zip_name)
ZipPath(dst_dir, zip_name) == dst_dir \o <<"/">> \o zip_name

\* push_project's cleanup: format!("{}\\{}.zip", project_path, name)
CleanupPath(dir, n) == dir \o <<"\\">> \o n \o <<".", "z", "i", "p">>

\* The local path handed to `adb push`: the bare zip_name.
PushPath(dir, n) == ZipName(n)

\* What a local path given to File::create, fs::remove_file or adb denotes
\* on the host: "/" separates components everywhere, "\" only on Windows
\* (elsewhere it is an ordinary file-name character); empty and "."
\* components are dropped; a leading separator makes the path absolute,
\* any other path is relative to the working directory.
Separators(win) == IF win THEN {"/", "\\"} ELSE {"/"}

RECURSIVE DropDots(_)
DropDots(ss) ==
    IF ss = <<>> THEN <<>>
    ELSE IF Head(ss) \in {<<>>, <<".">>} THEN DropDots(Tail(ss))
         ELSE <<Head(ss)>> \o DropDots(Tail(ss))

Resolve(path, win) ==
    [abs  |-> path # <<>> /\ Head(path) \in Separators(win),
     segs |-> DropDots(Split(path, Separators(win)))]

-----------------------------------------------------------------------------
(* main.rs: push_project.                                                  *)

\* Module names and project directories tried.
ModuleNames == { <<"m">>, <<"a", "b">> }
GivenPaths == { NoArg, Arg(<<".">>), Arg(<<"p">>) }

\* main, Build arm: base_path is the given path (which exists), or else
\* the module name taken as a path.
BasePath(path, n) == IF path.given THEN path.s ELSE n

\* The commands push_project runs as child processes, in program order.
Detections == {"adb_devices", "fastboot_devices"}
RemoteCommands == {"push", "mkdir", "unzip", "touch", "reboot"}
Commands == Detections \cup RemoteCommands

RemoteInit == [zip |-> FALSE, dir |-> FALSE, unpacked |-> FALSE,
               marker |-> FALSE, rebooted |-> FALSE]

\* `if !check_if_devices_are_connected() { ...; if !ignore_adb { return; } }`
\* with the flag test inverted.
ReturnsOnNoDeviceInverted(connected, ignore_adb) == ~connected /\ ignore_adb

\* `if !check_if_devices_are_connected() { ...; if !ignore_adb { return; } }`
ReturnsOnNoDevice(connected, ignore_adb) == ~connected /\ ~ignore_adb

\* push_project's control flow with `if no_push` testing no_reboot.
NextStageWrongFlag(stage, f) ==
    CASE stage = "zip"    -> IF f.no_reboot THEN "done" ELSE "push"
      [] stage = "push"   -> "mkdir"
      [] stage = "mkdir"  -> "unzip"
      [] stage = "unzip"  -> "touch"
      [] stage = "touch"  -> IF f.no_reboot THEN "done" ELSE "reboot"
      [] stage = "reboot" -> IF f.no_clear THEN "done" ELSE "cleanup"

\* push_project's control flow with the unpack and the marker swapped.
NextStageSwapped(stage, f) ==
    CASE stage = "zip"    -> IF f.no_push THEN "done" ELSE "push"
      [] stage = "push"   -> "mkdir"
      [] stage = "mkdir"  -> "touch"
      [] stage = "touch"  -> "unzip"
      [] stage = "unzip"  -> IF f.no_reboot THEN "done" ELSE "reboot"
      [] stage = "reboot" -> IF f.no_clear THEN "done" ELSE "cleanup"

\* push_project's control flow with the cleanup moved out of the restart
\* branch: a run that skips the restart still removes the archive.
NextStageCleanupAlways(stage, f) ==
    CASE stage = "zip"    -> IF f.no_push THEN "done" ELSE "push"
      [] stage = "push"   -> "mkdir"
      [] stage = "mkdir"  -> "unzip"
      [] stage = "unzip"  -> "touch"
      [] stage = "touch"  -> IF f.no_reboot
                             THEN (IF f.no_clear THEN "done" ELSE "cleanup")
                             ELSE "reboot"
      [] stage = "reboot" -> IF f.no_clear THEN "done" ELSE "cleanup"

\* push_project's control flow after a stage has completed.  The exit
\* status of a command is not looked at: `.status().unwrap()` only panics
\* when the process could not be run.
NextStage(stage, f) ==
    CASE stage = "zip"    -> IF f.no_push THEN "done" ELSE "push"
      [] stage = "push"   -> "mkdir"
      [] stage = "mkdir"  -> "unzip"
      [] stage = "unzip"  -> "touch"
      [] stage = "touch"  -> IF f.no_reboot THEN "done" ELSE "reboot"
      [] stage = "reboot" -> IF f.no_clear THEN "done" ELSE "cleanup"

\* The exit statuses a remote command can return, given the device and the
\* local files: a push needs its local file, an unpack the pushed archive,
\* the marker a directory to be created in.
Outcomes(op, r, files, localPushFile) ==
    CASE op = "push"   -> IF localPushFile \in files THEN {"ok", "fail"}
                          ELSE {"fail"}
      [] op = "unzip"  -> IF r.zip THEN {"ok", "fail"} ELSE {"fail"}
      [] op = "touch"  -> IF r.dir \/ r.unpacked THEN {"ok", "fail"}
                          ELSE {"fail"}
      [] OTHER         -> {"ok", "fail"}

\* What a remote command that exits with status zero has done on the device.
Effect(op, st, r) ==
    IF st # "ok" THEN r
    ELSE CASE op = "push"   -> [r EXCEPT !.zip = TRUE]
           [] op = "mkdir"  -> [r EXCEPT !.dir = TRUE]
           [] op = "unzip"  -> [r EXCEPT !.dir = TRUE, !.unpacked = TRUE]
           [] op = "touch"  -> [r EXCEPT !.marker = TRUE]
           [] op = "reboot" -> [r EXCEPT !.rebooted = TRUE]

\* The local path a logged operation was given.
LocalArg(op) ==
    IF op = "push" THEN PushPath(project_path, name) ELSE <<>>

-----------------------------------------------------------------------------
(* main.rs: zip_folder's walk over the source tree.                        *)

\* A directory tree: whether its root exists, and the entries below the
\* root, each with its path from the root as a sequence of file names.
NoTree == [exists |-> FALSE, entries |-> {}]

File(comps, readable, data) ==
    [comps |-> comps, kind |-> "file", readable |-> readable, data |-> data]
Dir(comps, readable) ==
    [comps |-> comps, kind |-> "dir", readable |-> readable, data |-> <<>>]

\* The trees tried at module_path: none (the directory does not exist);
\* f1, d/, d/f2; the same with d unreadable; the same with f1 unreadable;
\* and, where the host allows '\' in a file name, the single file "x\z".
SourceTrees(win) ==
    LET f1 == << <<"f", "1">> >>
        d  == << <<"d">> >>
        f2 == << <<"d">>, <<"f", "2">> >>
    IN  { NoTree,
          [exists |-> TRUE,
           entries |-> { File(f1, TRUE, "C1"), Dir(d, TRUE), File(f2, TRUE, "C2") }],
          [exists |-> TRUE,
           entries |-> { File(f1, TRUE, "C1"), Dir(d, FALSE), File(f2, TRUE, "C2") }],
          [exists |-> TRUE,
           entries |-> { File(f1, FALSE, "C1"), Dir(d, TRUE), File(f2, TRUE, "C2") }] }
        \cup
        ( IF win THEN {}
          ELSE { [exists |-> TRUE,
                  entries |-> { File(<< <<"x", "\\", "z">> >>, TRUE, "C1") }] } )

\* What WalkDir yields below a directory it could open: each child in turn
\* (here by name), a directory followed by what is below it, or by an
\* error when it cannot be opened.
RECURSIVE WalkBelow(_, _, _)
RECURSIVE WalkChildren(_, _, _)
WalkChildren(tree, dir, names) ==
    IF names = <<>> THEN <<>>
    ELSE LET e == CHOOSE x \in tree.entries : x.comps = Append(dir, Head(names))
         IN  <<e>>
             \o (IF e.kind = "dir" THEN WalkBelow(tree, e.comps, e.readable)
                 ELSE <<>>)
             \o WalkChildren(tree, dir, Tail(names))

WalkBelow(tree, dir, readable) ==
    IF ~ readable THEN << [kind |-> "err"] >>
    ELSE WalkChildren(tree, dir,
            SortedKeys({ x.comps[Len(x.comps)] :
                           x \in { y \in tree.entries :
                                     /\ Len(y.comps) = Len(dir) + 1
                                     /\ SubSeq(y.comps, 1, Len(dir)) = dir } }))

\* WalkDir::new(src_dir).into_iter(): the root itself first (depth 0), then
\* what is below it; a root that does not exist yields one error.
WalkDir(tree) ==
    IF ~ tree.exists THEN << [kind |-> "err"] >>
    ELSE << Dir(<<>>, TRUE) >> \o WalkBelow(tree, <<>>, TRUE)

\* Path::to_string_lossy of a relative path: its components joined by the
\* host's separator.
RECURSIVE JoinWith(_, _)
JoinWith(comps, sep) ==
    IF comps = <<>> THEN <<>>
    ELSE IF Len(comps) = 1 THEN Head(comps)
    ELSE Head(comps) \o <<sep>> \o JoinWith(Tail(comps), sep)

HostSeparator(win) == IF win THEN "\\" ELSE "/"

\* str::replace("\\", "/")
BackslashToSlash(s) == [i \in DOMAIN s |-> IF s[i] = "\\" THEN "/" ELSE s[i]]

\* rel: path.strip_prefix(src_dir), to_string_lossy, replace.
RelName(comps, win) == BackslashToSlash(JoinWith(comps, HostSeparator(win)))

\* The archive entry zip_folder writes for a walked entry: a directory
\* entry named rel + "/", or a file entry named rel with the file's bytes.
ArchiveEntry(e, win) ==
    IF e.kind = "dir"
    THEN [name |-> RelName(e.comps, win) \o <<"/">>, dir |-> TRUE, data |-> <<>>]
    ELSE [name |-> RelName(e.comps, win), dir |-> FALSE, data |-> e.data]

\* State when main calls push_project.
Init ==
    /\ pc = "adb_devices"
    /\ name \in ModuleNames
    /\ flags \in [no_clear : BOOLEAN, no_push : BOOLEAN,
                  no_reboot : BOOLEAN, ignore_adb : BOOLEAN]
    /\ \E path \in GivenPaths : project_path = BasePath(path, name)
    /\ windows \in BOOLEAN
    /\ adbOut = <<>>
    /\ fbOut = <<>>
    /\ fs = {}
    /\ zipState = "none"
    /\ zipFile = <<>>
    /\ srcTree = NoTree
    /\ walk = <<>>
    /\ archive = <<>>
    /\ inflight = "none"
    /\ log = <<>>
    /\ status = <<>>
    /\ remote = RemoteInit
    /\ TrieIdle

\* Command::new(..).output()/.status() returns Err (the program could not
\* be run): unwrap panics.
SpawnFails(op) ==
    /\ pc = op
    /\ inflight = "none"
    /\ pc' = "panicked"
    /\ UNCHANGED <<name, flags, project_path, windows, adbOut, fbOut, fs,
                   zipState, zipFile, inflight, log, status, remote>>
    /\ UNCHANGED zipVars
    /\ UNCHANGED trieVars

\* The child process of a command is started; the caller blocks on it.
StartCommand(op) ==
    /\ pc = op
    /\ inflight = "none"
    /\ inflight' = op
    /\ log' = Append(log, [op |-> op, path |-> LocalArg(op)])
    /\ UNCHANGED <<pc, name, flags, project_path, windows, adbOut, fbOut, fs,
                   zipState, zipFile, status, remote>>
    /\ UNCHANGED zipVars
    /\ UNCHANGED trieVars

\* `adb devices` has ended: has_adb_device; `||` skips fastboot when true.
AdbDevicesDone(out) ==
    /\ inflight = "adb_devices"
    /\ adbOut' = out
    /\ status' = status @@ ("adb_devices" :> "ok")
    /\ inflight' = "none"
    /\ pc' = IF HasAdbDevice(out) THEN "zip_create" ELSE "fastboot_devices"
    /\ UNCHANGED <<name, flags, project_path, windows, fbOut, fs, zipState,
                   zipFile, log, remote>>
    /\ UNCHANGED zipVars
    /\ UNCHANGED trieVars

\* `fastboot devices` has ended: has_fastboot_device, then the test of
\* ignore_adb when no device was found.
FastbootDevicesDone(out) ==
    /\ inflight = "fastboot_devices"
    /\ fbOut' = out
    /\ status' = status @@ ("fastboot_devices" :> "ok")
    /\ inflight' = "none"
    /\ pc' = IF ReturnsOnNoDevice(HasFastbootDevice(out), flags.ignore_adb)
             THEN "done" ELSE "zip_create"
    /\ UNCHANGED <<name, flags, project_path, windows, adbOut, fs, zipState,
                   zipFile, log, remote>>
    /\ UNCHANGED zipVars
    /\ UNCHANGED trieVars

\* zip_folder: File::create of the archive; "Failed to create ZIP" panics.
\* Then the ZipWriter is made and the walk over module_path begins.
ZipCreate(ok) ==
    /\ pc = "zip_create"
    /\ LET path == ZipPath(project_path, ZipName(name))
       IN  /\ log' = Append(log, [op |-> "zip", path |-> path])
           /\ IF ok
              THEN /\ fs' = fs \cup {Resolve(path, windows)}
                   /\ zipFile' = Resolve(path, windows)
                   /\ zipState' = "open"
                   /\ \E tree \in SourceTrees(windows) :
                         /\ srcTree' = tree
                         /\ walk' = WalkDir(tree)
                   /\ pc' = "zip_write"
              ELSE /\ pc' = "panicked"
                   /\ UNCHANGED <<fs, zipFile, zipState, srcTree, walk>>
    /\ UNCHANGED <<name, flags, project_path, windows, adbOut, fbOut,
                   inflight, status, remote, archive>>
    /\ UNCHANGED trieVars

\* zip_folder: one turn of the walk.  An error the iterator yields is
\* dropped by filter_map(|e| e.ok()); a directory is written with
\* add_directory, a file with start_file, fs::read and write_all; each of
\* these unwraps, so a failure (ok false, or a file that cannot be read)
\* panics and the writer is dropped.  After the last entry comes
\* zip.finish().
ZipWrite(ok) ==
    /\ pc = "zip_write"
    /\ walk # <<>>
    /\ LET e == Head(walk)
       IN  IF e.kind = "err"
           THEN /\ ok
                /\ walk' = Tail(walk)
                /\ pc' = IF Tail(walk) = <<>> THEN "zip_finish" ELSE "zip_write"
                /\ UNCHANGED <<archive, zipState>>
           ELSE IF ok /\ e.readable
           THEN /\ archive' = Append(archive, ArchiveEntry(e, windows))
                /\ walk' = Tail(walk)
                /\ pc' = IF Tail(walk) = <<>> THEN "zip_finish" ELSE "zip_write"
                /\ UNCHANGED zipState
           ELSE /\ pc' = "panicked"
                /\ zipState' = "dropped"
                /\ UNCHANGED <<archive, walk>>
    /\ UNCHANGED <<name, flags, project_path, windows, adbOut, fbOut, fs,
                   zipFile, srcTree, inflight, log, status, remote>>
    /\ UNCHANGED trieVars

\* zip_folder: zip.finish() writes the central directory and gives the File
\* back, which is dropped (closed) at the end of the statement; then
\* `if no_push { return; }`.
ZipFinish(ok) ==
    /\ pc = "zip_finish"
    /\ IF ok
       THEN /\ zipState' = "closed"
            /\ status' = status @@ ("zip" :> "ok")
            /\ pc' = NextStage("zip", flags)
       ELSE /\ zipState' = "dropped"
            /\ pc' = "panicked"
            /\ UNCHANGED status
    /\ UNCHANGED <<name, flags, project_path, windows, adbOut, fbOut, fs,
                   zipFile, inflight, log, remote>>
    /\ UNCHANGED zipVars
    /\ UNCHANGED trieVars

\* A remote command has ended with exit status st; push_project goes on to
\* the next statement.
CommandDone(op, st) ==
    /\ inflight = op
    /\ op \in RemoteCommands
    /\ st \in Outcomes(op, remote, fs, Resolve(PushPath(project_path, name), windows))
    /\ status' = status @@ (op :> st)
    /\ remote' = Effect(op, st, remote)
    /\ inflight' = "none"
    /\ pc' = NextStage(op, flags)
    /\ UNCHANGED <<name, flags, project_path, windows, adbOut, fbOut, fs,
                   zipState, zipFile, log>>
    /\ UNCHANGED zipVars
    /\ UNCHANGED trieVars

\* `let _ = fs::remove_file(..)` under `if !no_clear`: the file the path
\* denotes is removed if it exists; an error is dropped.
Cleanup ==
    /\ pc = "cleanup"
    /\ LET path   == CleanupPath(project_path, name)
           target == Resolve(path, windows)
       IN  /\ log' = Append(log, [op |-> "remove_file", path |-> path])
           /\ status' = status @@
                 ("remove_file" :> IF target \in fs THEN "ok" ELSE "fail")
           /\ fs' = fs \ {target}
    /\ pc' = "done"
    /\ UNCHANGED <<name, flags, project_path, windows, adbOut, fbOut,
                   zipState, zipFile, inflight, remote>>
    /\ UNCHANGED zipVars
    /\ UNCHANGED trieVars

Next ==
    \/ \E op \in Commands : SpawnFails(op)
    \/ \E op \in Commands : StartCommand(op)
    \/ \E out \in AdbOutputs : AdbDevicesDone(out)
    \/ \E out \in FastbootOutputs : FastbootDevicesDone(out)
    \/ \E ok \in BOOLEAN : ZipCreate(ok)
    \/ \E ok \in BOOLEAN : ZipWrite(ok)
    \/ \E ok \in BOOLEAN : ZipFinish(ok)
    \/ \E op \in RemoteCommands, st \in {"ok", "fail"} : CommandDone(op, st)
    \/ Cleanup

Spec == Init /\ [][Next]_vars

-----------------------------------------------------------------------------
(* Properties of the deploy pipeline, checked under Spec.                  *)

Issued(op) == \E i \in DOMAIN log : log[i].op = op
Completed(op) == op \in DOMAIN status
Failed(op) == Completed(op) /\ status[op] = "fail"
Succeeded(op) == Completed(op) /\ status[op] = "ok"
Ended == pc \in {"done", "panicked"}

\* What the connectivity check found, from the two listings.
DeviceFound ==
    \/ Completed("adb_devices") /\ HasAdbDevice(adbOut)
    \/ Completed("fastboot_devices") /\ HasFastbootDevice(fbOut)

\* C1 as claimed: the marker command is issued only after an unpack that
\* exited with status zero, is issued in every completed run whose unpack
\* did so, and a run whose unpack failed ends without a marker.
MarkerOnlyAfterUnpack ==
    /\ Issued("touch") => Succeeded("unzip")
    /\ (pc = "done" /\ Succeeded("unzip")) => Issued("touch")
    /\ (Ended /\ Failed("unzip")) => ~ remote.marker

\* C2 as claimed: once a remote stage (transfer, staging directory, unpack,
\* marker) has returned a non-zero status no further operation is issued,
\* and no operation is issued twice.
StopsAtFailedStage ==
    /\ \A i \in DOMAIN log :
          (log[i].op \in {"push", "mkdir", "unzip", "touch"} /\ Failed(log[i].op))
              => i = Len(log)
    /\ \A i, j \in DOMAIN log : log[i].op = log[j].op => i = j

\* C3: when neither listing reports a device and ignore_adb is unset,
\* nothing but the two listings is ever run: no archive is created, no
\* command issued, the device untouched; and push_project has returned
\* once both listings are in.
NoDeviceNoSideEffect ==
    (/\ Completed("adb_devices")
     /\ ~ DeviceFound
     /\ ~ flags.ignore_adb)
    => /\ \A i \in DOMAIN log : log[i].op \in Detections
       /\ fs = {}
       /\ zipState = "none"
       /\ remote = RemoteInit
       /\ Completed("fastboot_devices") => pc = "done"

\* C3 witness: an offline device in `adb devices`, a blank line from
\* `fastboot devices`, ignore_adb unset, and the run has returned.
NoDeviceWitness ==
    /\ pc = "done"
    /\ Completed("fastboot_devices")
    /\ ~ DeviceFound
    /\ ~ flags.ignore_adb
    /\ fbOut = <<" ", "\n">>
    /\ Len(adbOut) > 25

\* C4: with no_push set, no transfer, staging, unpack, marker, restart or
\* cleanup is ever issued and the device stays untouched; a run that got
\* past the connectivity check and did not panic in zip_folder has built
\* and closed the archive when it returns, and returns right after that.
NoPushStopsAfterArchive ==
    flags.no_push =>
        /\ \A i \in DOMAIN log : log[i].op \notin RemoteCommands \cup {"remove_file"}
        /\ remote = RemoteInit
        /\ Completed("zip") => (pc = "done" /\ zipState = "closed" /\ zipFile \in fs)
        /\ (pc = "done" /\ (DeviceFound \/ flags.ignore_adb)) => Completed("zip")

\* C4 witness: no_push is the only skip flag set, no device was found but
\* ignore_adb lets the run go on, and it has returned with the archive.
NoPushWitness ==
    /\ flags = [no_clear |-> FALSE, no_push |-> TRUE,
                no_reboot |-> FALSE, ignore_adb |-> TRUE]
    /\ ~ DeviceFound
    /\ pc = "done"
    /\ Completed("zip")

\* C5 as claimed: the local path given to the push command denotes the
\* file zip_folder created.
PushesBuiltArchive ==
    \A i \in DOMAIN log :
        log[i].op = "push" => Resolve(log[i].path, windows) = zipFile

\* C6 as claimed: a run that issued the restart with no_clear unset ends
\* with the archive it built removed from the local disk.
CleanupRemovesArchive ==
    (pc = "done" /\ Issued("reboot") /\ ~ flags.no_clear) => zipFile \notin fs

\* The fixed order of the external operations.
StageOrder == <<"adb_devices", "fastboot_devices", "zip", "push", "mkdir",
                "unzip", "touch", "reboot", "remove_file">>
StageIndex(op) == CHOOSE k \in DOMAIN StageOrder : StageOrder[k] = op

\* C10: the operations are issued in the fixed order, each at most once;
\* every operation but the last issued has completed (at most one is ever
\* running); and the transfer is issued only after zip.finish has returned
\* and the archive file is closed.
StrictSequence ==
    /\ \A i, j \in DOMAIN log :
          i < j => StageIndex(log[i].op) < StageIndex(log[j].op)
    /\ \A i \in DOMAIN log : i < Len(log) => Completed(log[i].op)
    /\ inflight # "none" =>
          (log # <<>> /\ log[Len(log)].op = inflight /\ ~ Completed(inflight))
    /\ Issued("push") => (Completed("zip") /\ zipState = "closed")

\* C10 witness: a run that performed all nine operations and returned.
StrictSequenceWitness ==
    /\ pc = "done"
    /\ Len(log) = Len(StageOrder)
    /\ Succeeded("unzip")

\* C11: the archive removal is attempted only after the restart command
\* has been issued and has returned, and never with no_clear set; with
\* no_reboot set the run returns as soon as the marker command has ended,
\* issues neither restart nor removal, and the archive it built stays.
CleanupOnlyAfterRestart ==
    /\ Issued("remove_file") => (Completed("reboot") /\ ~ flags.no_clear)
    /\ flags.no_clear => ~ Issued("remove_file")
    /\ flags.no_reboot =>
          /\ ~ Issued("reboot")
          /\ ~ Issued("remove_file")
          /\ Completed("touch") => pc = "done"
          /\ Completed("zip") => zipFile \in fs

\* C11 witness: no_reboot set, no_clear unset; the marker command has
\* ended, the run has returned and the archive is still on disk.
CleanupOnlyAfterRestartWitness ==
    /\ flags.no_reboot
    /\ ~ flags.no_clear
    /\ Completed("touch")
    /\ pc = "done"
    /\ zipFile \in fs

-----------------------------------------------------------------------------
(* Further properties of the path trie, checked under TrieSpec.            *)

\* C12: a step that inserts a line that was inserted before (so the set of
\* inserted lines does not grow) leaves the trie exactly as it was.
InsertIdempotent ==
    [][(nLines' = nLines + 1 /\ inserted' = inserted) => root' = root]_vars

\* C12 witness: "/a/b/a" was inserted, and "/a/b" twice, the second time
\* into a trie in which its node already has a child.
InsertIdempotentWitness ==
    /\ nLines = 3
    /\ inserted = { <<"/", "a", "/", "b">>, <<"/", "a", "/", "b", "/", "a">> }
    /\ Get(root, <<"/", "a", "/", "b", "/", "a">>).found

\* A path string with every run of '/' reduced to one '/'.
RECURSIVE SqueezeSlashes(_)
SqueezeSlashes(s) ==
    IF Len(s) <= 1 THEN s
    ELSE IF s[1] = "/" /\ s[2] = "/" THEN SqueezeSlashes(Tail(s))
         ELSE <<s[1]>> \o SqueezeSlashes(Tail(s))

\* A path string without repeated, leading and trailing '/'.
StripSlashes(s) ==
    LET t == SqueezeSlashes(s)
        u == IF t # <<>> /\ t[1] = "/" THEN Tail(t) ELSE t
    IN  IF u # <<>> /\ u[Len(u)] = "/" THEN SubSeq(u, 1, Len(u) - 1) ELSE u

\* No node of the trie is labelled with the empty string.
RECURSIVE NoEmptyLabel(_)
NoEmptyLabel(node) ==
    \A k \in DOMAIN node : k # <<>> /\ NoEmptyLabel(node[k])

\* C13: in every reachable trie, two path strings that differ only in
\* leading, trailing or repeated '/' insert the same nodes and look up the
\* same node; no node is labelled with the empty string; and a path that is
\* empty or only slashes inserts nothing and looks up the root.
EmptySegmentsDiscarded ==
    /\ \A p, q \in QueryPaths :
          StripSlashes(p) = StripSlashes(q) =>
              /\ Insert(root, p) = Insert(root, q)
              /\ Get(root, p) = Get(root, q)
    /\ NoEmptyLabel(root)
    /\ \A p \in QueryPaths :
          StripSlashes(p) = <<>> =>
              /\ Insert(root, p) = root
              /\ Get(root, p) = Some(root)

\* C13 witness: the trie was built from "/" and "a//b/" alone, and "/a/b"
\* looks up the node "a//b/" created.
EmptySegmentsWitness ==
    /\ inserted = { <<"/">>, <<"a", "/", "/", "b", "/">> }
    /\ Get(root, <<"/", "a", "/", "b">>).found
    /\ root # NewNode

\* The node names a rendering shows: each output line without its indent.
RenderedNames(out) == [i \in DOMAIN out |-> TrimStart(out[i])]

\* C15: the GetAndroidTree step always completes; it leaves the trie as it
\* was; and it shows one line for every node below the node the sub-path
\* names when the sub-path names a node, one line for every node of the
\* trie when it names none or when no sub-path is given.
QueryFallsBackToWholeTree ==
    [][(tcmd = "GetAndroidTree" /\ tpc = "render" /\ tpc' # tpc) =>
          LET want  == Segments(UnwrapOrEmpty(directory_name'))
              shown == IF directory_name'.given /\ want \in NodePaths
                       THEN { q \in NodePaths :
                                Len(q) > Len(want) /\ IsPrefix(want, q) }
                       ELSE NodePaths \ {<<>>}
          IN  /\ tpc' = "done"
              /\ root' = root
              /\ inserted' = inserted
              /\ Len(output') = Cardinality(shown)
              /\ \A q \in shown :
                    \E i \in DOMAIN output' :
                        RenderedNames(output')[i] = q[Len(q)]
    ]_vars

\* C15 witness: "/a/c" names no node of the trie of /a/b and /b/a, and the
\* query has shown all four nodes; the trie still resolves "/a/b".
QueryFallbackWitness ==
    /\ tpc = "done"
    /\ tcmd = "GetAndroidTree"
    /\ inserted = { <<"/", "a", "/", "b">>, <<"/", "b", "/", "a">> }
    /\ directory_name = Arg(<<"/", "a", "/", "c">>)
    /\ Len(output) = 4
    /\ Get(root, <<"/", "a", "/", "b">>).found

\* Every path from the root of a trie to one of its nodes.
RECURSIVE TriePaths(_)
TriePaths(node) ==
    {<<>>} \cup UNION { { <<k>> \o p : p \in TriePaths(node[k]) }
                        : k \in DOMAIN node }

\* The segment sequences looked at: those of the query paths with their
\* prefixes, and every path to a node of the trie t.
SegmentSequences(t) ==
    TriePaths(t) \cup
    UNION { { SubSeq(Segments(p), 1, n) : n \in 0..Len(Segments(p)) }
            : p \in QueryPaths }

\* C19: no step makes a path that resolved stop resolving, and after every
\* step the segment sequences that resolve are exactly the prefixes of the
\* inserted lines' segment sequences, the empty sequence among them.
InsertOnlyAdds ==
    [][/\ \A s \in SegmentSequences(root) :
             GetParts(root, s).found => GetParts(root', s).found
       /\ \A s \in SegmentSequences(root') :
             GetParts(root', s).found <=> s \in NodePaths'
       /\ GetParts(root', <<>>).found
    ]_vars

\* C19 witness: after /b/a, /a/b and /ab the trie has exactly the five
\* nodes a, a/b, ab, b, b/a below the root.
InsertOnlyAddsWitness ==
    /\ inserted = { <<"/", "b", "/", "a">>, <<"/", "a", "/", "b">>,
                    <<"/", "a", "b">> }
    /\ Cardinality(TriePaths(root)) = 6
    /\ GetParts(root, << <<"b">>, <<"a">> >>).found

-----------------------------------------------------------------------------
(* Further properties of the deploy pipeline, checked under Spec.          *)

\* The lines of a listing, each with the position of the line break before
\* it (0 for the first line, the header of `adb devices`).
ListingLines(s) ==
    LET breaks == {0} \cup { i \in 1..Len(s) : s[i] = "\n" }
    IN  { [after |-> b,
           text  |-> SubSeq(s, b + 1,
                            (CHOOSE e \in (breaks \cup {Len(s) + 1}) :
                                /\ e > b
                                /\ \A x \in breaks : x > b => x >= e) - 1)]
          : b \in breaks }

\* A line of the form <device-id> <status> with the status "device": it
\* has exactly two runs of non-blank characters, the second being "device".
ReadyDeviceLine(line) ==
    LET solid  == { i \in 1..Len(line) : line[i] \notin Whitespace }
        starts == { i \in solid : i - 1 \notin solid }
    IN  /\ Cardinality(starts) = 2
        /\ LET from == CHOOSE i \in starts : \A j \in starts : j <= i
               to   == CHOOSE i \in solid : \A j \in solid : j <= i
           IN  SubSeq(line, from, to) = DEVICE

\* What the two listings say, read as the interface describes them.
AdbListsReadyDevice(s) ==
    \E l \in ListingLines(s) : l.after > 0 /\ ReadyDeviceLine(l.text)

FastbootListsDevice(s) ==
    \E l \in ListingLines(s) :
        \E i \in 1..Len(l.text) : l.text[i] \notin Whitespace

\* C16: the check reports a device exactly when the general listing has a
\* ready-device line after its header or the bootloader listing has a line
\* that is not blank.  The report is observed by what push_project does:
\* fastboot is consulted only when adb reported none and the run goes on
\* without consulting it only when adb reported a device, and with
\* ignore_adb unset the run goes on to the archive exactly when a device
\* was reported.
ConnectivityReport ==
    /\ (Completed("adb_devices") /\ (pc = "fastboot_devices" \/ Issued("fastboot_devices")))
           => ~ AdbListsReadyDevice(adbOut)
    /\ ((pc = "zip_create" \/ Issued("zip")) /\ ~ Issued("fastboot_devices"))
           => AdbListsReadyDevice(adbOut)
    /\ ~ flags.ignore_adb =>
          /\ (pc = "zip_create" \/ Issued("zip"))
                 => (AdbListsReadyDevice(adbOut) \/ FastbootListsDevice(fbOut))
          /\ (pc = "done" /\ ~ Issued("zip"))
                 => ~ (AdbListsReadyDevice(adbOut) \/ FastbootListsDevice(fbOut))

\* C16 witness: adb lists a three-token line only, fastboot lists a device,
\* and with ignore_adb unset the run is about to build the archive.
ConnectivityWitness ==
    /\ ~ flags.ignore_adb
    /\ pc = "zip_create"
    /\ Len(adbOut) = 38
    /\ ~ AdbListsReadyDevice(adbOut)
    /\ Completed("fastboot_devices")
    /\ FastbootListsDevice(fbOut)

\* ---------------------------------------------------------------------
\* Properties of the archive zip_folder writes
\* ---------------------------------------------------------------------

FileEntries == { i \in DOMAIN archive : ~ archive[i].dir }
DirEntries == { i \in DOMAIN archive : archive[i].dir }
SlashPath(comps) == JoinWith(comps, "/")

\* C14 as claimed: once zip_folder has returned, the archive holds exactly
\* one file entry for every file of the source tree, named by the file's
\* path below the source root with '/' between the components and carrying
\* the file's content, no other file entry, and for every subdirectory a
\* directory entry named by its path followed by '/'.
ArchiveRoundTrip ==
    Completed("zip") =>
        /\ \A f \in { e \in srcTree.entries : e.kind = "file" } :
              /\ Cardinality({ i \in FileEntries :
                                 archive[i].name = SlashPath(f.comps) }) = 1
              /\ \A i \in FileEntries :
                    archive[i].name = SlashPath(f.comps) => archive[i].data = f.data
        /\ Cardinality(FileEntries)
              = Cardinality({ e \in srcTree.entries : e.kind = "file" })
        /\ \A d \in { e \in srcTree.entries : e.kind = "dir" } :
              \E i \in DirEntries : archive[i].name = SlashPath(d.comps) \o <<"/">>

\* C17 as claimed: zip_folder returns only when the source directory
\* exists, every entry below it could be read, and each has its entry in
\* the archive; and after a build that did not return, no transfer or
\* remote command is issued.
AllOrAbort ==
    /\ Completed("zip") =>
          /\ srcTree.exists
          /\ \A e \in srcTree.entries :
                /\ e.readable
                /\ \E i \in DOMAIN archive : archive[i] = ArchiveEntry(e, windows)
    /\ (Issued("zip") /\ ~ Completed("zip")) =>
          \A op \in RemoteCommands : ~ Issued(op)

\* C18 as claimed: no entry of the archive is named "" or "/", and no
\* entry name begins with '/'.
EntryNamesRelative ==
    \A i \in DOMAIN archive :
        /\ archive[i].name # <<>>
        /\ archive[i].name # <<"/">>
        /\ Head(archive[i].name) # "/"

====
